---- MODULE Spec2Model ----
(***************************************************************************)
(* A model of qxtags (src/qxtags.js): the source registry SrcMgr, the      *)
(* directory indexer DirMgr and the tag emitter SrcMgr.genCtags.           *)
(*                                                                         *)
(* Text (paths, class names, member names, signatures, tag fields) is a    *)
(* sequence of one-character strings, so that startsWith / endsWith and    *)
(* concatenation are computed on characters as the code computes them.     *)
(***************************************************************************)
EXTENDS Naturals, Sequences, FiniteSets

VARIABLES
    disk,      \* the file system: path -> node (absent, directory, regular file)
    srcs,      \* SrcMgr.srcs   : insertion-ordered Map path -> SrcInfo
    classes,   \* SrcMgr.classes: insertion-ordered Map class name -> ClassInfo
    dirs,      \* DirMgr.dirs   : Set of known directories
    dirQ,      \* the work queue of the scan call in progress
    pc,        \* "idle", "scan" while a scan call is inside its loop, "raised"
               \* when an exception has ended the scan
    events,    \* what the scan call in progress did, in order (listings,
               \* checkFile calls, notifications delivered to observers)
    last,      \* the last operation: its name, argument, outcome, and the
               \* registry it started from
    ctags      \* the text last returned by genCtags

vars == <<disk, srcs, classes, dirs, dirQ, pc, events, last, ctags>>

----------------------------------------------------------------------------
(* Bounds of the model *)

\* the largest number of top-level call statements in one source file
MaxDefs == 2

\* how many sections of a class body start on one source line
SectionsPerLine == 2

----------------------------------------------------------------------------
(* Text *)

StartsWith(s, p) == Len(p) <= Len(s) /\ SubSeq(s, 1, Len(p)) = p

\* endsWith that leaves out the first character of the suffix
EndsWithTail(s, p) == Len(p) - 1 <= Len(s) /\ SubSeq(s, Len(s) - Len(p) + 2, Len(s)) = Tail(p)

EndsWith(s, p) == Len(p) <= Len(s) /\ SubSeq(s, Len(s) - Len(p) + 1, Len(s)) = p

\* pathlib.join(path, name) of an absolute path and a plain name
PathJoin(path, name) == path \o <<"/">> \o name

RECURSIVE JoinText(_, _)
\* Array.prototype.join(sep) of an array of texts
JoinText(parts, sep) ==
    IF parts = <<>> THEN <<>>
    ELSE IF Len(parts) = 1 THEN parts[1]
    ELSE parts[1] \o sep \o JoinText(Tail(parts), sep)

\* a value that is null / undefined
NULL == <<>>

----------------------------------------------------------------------------
(* Insertion-ordered Map (ECMAScript Map): a sequence of [k, v] without    *)
(* repeated keys, in insertion order.                                      *)

MapHas(m, k) == \E i \in 1..Len(m) : m[i].k = k

MapGet(m, k) == m[CHOOSE i \in 1..Len(m) : m[i].k = k].v

\* set of an existing key keeps its place; a new key goes last
MapSet(m, k, v) ==
    IF MapHas(m, k)
    THEN [i \in 1..Len(m) |-> IF m[i].k = k THEN [k |-> k, v |-> v] ELSE m[i]]
    ELSE Append(m, [k |-> k, v |-> v])

MapDelete(m, k) == SelectSeq(m, LAMBDA e : e.k # k)

MapKeys(m) == [i \in 1..Len(m) |-> m[i].k]

MapValues(m) == [i \in 1..Len(m) |-> m[i].v]

MapKeySet(m) == {m[i].k : i \in 1..Len(m)}

----------------------------------------------------------------------------
(* The syntax tree esprima.parseScript returns, as far as the code reads   *)
(* it.  A value node carries its type, the line it starts on               *)
(* (loc.start.line), the text escodegen.generate gives for it, and, by     *)
(* type, its elements (ArrayExpression), params (FunctionExpression, the   *)
(* generated text of each) or properties (ObjectExpression).               *)

Node(type, line, text, elements, params, properties) ==
    [type |-> type, line |-> line, text |-> text,
     elements |-> elements, params |-> params, properties |-> properties]

RefNode(text, line) == Node("MemberExpression", line, text, <<>>, <<>>, <<>>)

LitNode(text, line) == Node("Literal", line, text, <<>>, <<>>, <<>>)

ArrNode(elements, line) == Node("ArrayExpression", line, <<>>, elements, <<>>, <<>>)

FnNode(params, line) == Node("FunctionExpression", line, <<>>, <<>>, params, <<>>)

ObjNode(properties, line) == Node("ObjectExpression", line, <<>>, <<>>, <<>>, properties)

\* a Property node whose key is an identifier (key.name) or a literal (key.value)
IdProp(name, val) == [keyType |-> "Identifier", keyName |-> name, keyValue |-> NULL, val |-> val]

LitProp(value, val) == [keyType |-> "Literal", keyName |-> NULL, keyValue |-> value, val |-> val]

\* a Property node of the class body; only its key.name and value are read
Section(keyName, val) == [keyName |-> keyName, val |-> val]

\* a top-level call statement: callee(arguments[0], arguments[1])
CallStmt(callee, name, bodyT) == [callee |-> callee, name |-> name, bodyT |-> bodyT]

QxClassDefine == <<"q","x",".","C","l","a","s","s",".","d","e","f","i","n","e">>

----------------------------------------------------------------------------
(* SrcMgr._parseClass *)

Tag(name, t, signature) == [name |-> name, line |-> t.line, signature |-> signature]

\* prop.key.type==='Identifier' ? prop.key.name : prop.key.value
PropName(prop) == IF prop.keyType = "Identifier" THEN prop.keyName ELSE prop.keyValue

\* '(' + params.map(generate).join(', ') + ')'
ParamSignature(valT) == <<"(">> \o JoinText(valT.params, <<",", " ">>) \o <<")">>

\* '(=' + generate(value) + ')'
DefaultSignature(valT) == <<"(", "=">> \o valT.text \o <<")">>

\* include / implement: one reference or an array of references
RefList(valT) ==
    IF valT.type = "ArrayExpression"
    THEN [i \in 1..Len(valT.elements) |-> Tag(valT.elements[i].text, valT.elements[i], NULL)]
    ELSE <<Tag(valT.text, valT, NULL)>>

PlainTags(valT) ==
    [i \in 1..Len(valT.properties) |->
        Tag(PropName(valT.properties[i]), valT.properties[i].val, NULL)]

RECURSIVE ParseMembers(_, _)
\* the loop over the entries of a `members` section
ParseMembers(cls, props) ==
    IF props = <<>> THEN cls
    ELSE LET prop == Head(props)
             next == IF prop.val.type = "FunctionExpression"
                     THEN [cls EXCEPT !.methods =
                              Append(@, Tag(PropName(prop), prop.val, ParamSignature(prop.val)))]
                     ELSE [cls EXCEPT !.properties =
                              Append(@, Tag(PropName(prop), prop.val, DefaultSignature(prop.val)))]
         IN ParseMembers(next, Tail(props))

\* one turn of the switch over the section key
ParseSection(cls, t) ==
    LET valT == t.val IN
    CASE t.keyName = "extend"     -> [cls EXCEPT !.extend = <<Tag(valT.text, valT, NULL)>>]
      [] t.keyName = "include"    -> [cls EXCEPT !.include = RefList(valT)]
      [] t.keyName = "implement"  -> [cls EXCEPT !.implement = RefList(valT)]
      [] t.keyName = "construct"  ->
            [cls EXCEPT !.methods =
                Append(@, Tag(<<"[","c","o","n","s","t","r","u","c","t","o","r","]">>,
                              valT, ParamSignature(valT)))]
      [] t.keyName = "destruct"   ->
            [cls EXCEPT !.methods =
                Append(@, Tag(<<"[","d","e","s","t","r","u","c","t","o","r","]">>,
                              valT, ParamSignature(valT)))]
      [] t.keyName = "statics"    -> [cls EXCEPT !.statics = @ \o PlainTags(valT)]
      [] t.keyName = "members"    -> ParseMembers(cls, valT.properties)
      [] t.keyName = "properties" -> [cls EXCEPT !.properties = @ \o PlainTags(valT)]
      [] t.keyName = "events"     -> [cls EXCEPT !.events = @ \o PlainTags(valT)]
      [] t.keyName = "type"       -> [cls EXCEPT !.type = valT.text]
      [] OTHER                    -> cls   \* environment, defer, unknown keys

RECURSIVE ParseSections(_, _)
ParseSections(cls, props) ==
    IF props = <<>> THEN cls
    ELSE ParseSections(ParseSection(cls, Head(props)), Tail(props))

ParseClass(srcPath, name, bodyT) ==
    ParseSections(
        [srcPath |-> srcPath, name |-> name, bodyLine |-> bodyT.line,
         type |-> NULL, extend |-> <<>>,
         include |-> <<>>, implement |-> <<>>, methods |-> <<>>,
         properties |-> <<>>, statics |-> <<>>, events |-> <<>>],
        bodyT.properties)

----------------------------------------------------------------------------
(* SrcMgr: the registry.  A registry value is [srcs, classes].             *)

Registry(s, c) == [srcs |-> s, classes |-> c]

\* new SrcMgr()
EmptyRegistry == Registry(<<>>, <<>>)

\* DeleteAll with the loop cut short: only the first class name is deleted
DeleteFirstOnly(clsMap, clsnames) ==
    IF clsnames = <<>> THEN clsMap ELSE MapDelete(clsMap, Head(clsnames))

RECURSIVE DeleteAll(_, _)
\* for (let clsname of si.clsnames) this.classes.delete(clsname)
DeleteAll(clsMap, clsnames) ==
    IF clsnames = <<>> THEN clsMap
    ELSE DeleteAll(MapDelete(clsMap, Head(clsnames)), Tail(clsnames))

\* _removeSrc without its loop over si.clsnames
RemoveSrcKeepClasses(reg, path) ==
    IF ~MapHas(reg.srcs, path) THEN reg
    ELSE Registry(MapDelete(reg.srcs, path), reg.classes)

\* _removeSrc emptying the class table instead of deleting the file's names
RemoveSrcClearClasses(reg, path) ==
    IF ~MapHas(reg.srcs, path) THEN reg
    ELSE Registry(MapDelete(reg.srcs, path), <<>>)

\* SrcMgr._removeSrc
RemoveSrc(reg, path) ==
    IF ~MapHas(reg.srcs, path) THEN reg
    ELSE Registry(MapDelete(reg.srcs, path),
                  DeleteAll(reg.classes, MapGet(reg.srcs, path).clsnames))

\* the duplicate test with its comparison inverted (===)
IsDuplicateInverted(clsMap, name, path) ==
    MapHas(clsMap, name) /\ MapGet(clsMap, name).srcPath = path

\* the duplicate test of _parseClasses: prev != null && prev.srcPath !== path
IsDuplicate(clsMap, name, path) ==
    MapHas(clsMap, name) /\ MapGet(clsMap, name).srcPath # path

RECURSIVE ParseClassesLoop(_, _, _, _)
\* the loop of _parseClasses over the candidates; acc is the local `classes`
ParseClassesLoop(clsMap, path, candidates, acc) ==
    IF candidates = <<>> THEN [thrown |-> FALSE, classes |-> acc]
    ELSE LET candidate == Head(candidates) IN
         IF candidate.callee # QxClassDefine
         THEN ParseClassesLoop(clsMap, path, Tail(candidates), acc)
         ELSE IF IsDuplicate(clsMap, candidate.name, path)
         THEN [thrown |-> TRUE, classes |-> acc]
         ELSE ParseClassesLoop(clsMap, path, Tail(candidates),
                  Append(acc, ParseClass(path, candidate.name, candidate.bodyT)))

\* SrcMgr._parseClasses
ParseClasses(clsMap, path, t) == ParseClassesLoop(clsMap, path, t, <<>>)

RECURSIVE SetAllButLast(_, _)
\* SetAll with the loop ending one class early
SetAllButLast(clsMap, clsList) ==
    IF Len(clsList) <= 1 THEN clsMap
    ELSE SetAllButLast(MapSet(clsMap, Head(clsList).name, Head(clsList)), Tail(clsList))

RECURSIVE SetAll(_, _)
\* for (let cls of classes) this.classes.set(cls.name, cls)
SetAll(clsMap, clsList) ==
    IF clsList = <<>> THEN clsMap
    ELSE SetAll(MapSet(clsMap, Head(clsList).name, Head(clsList)), Tail(clsList))

\* _addSrc whose loop stores each class once it has passed the duplicate
\* test, so that the classes met before the conflicting one stay stored
AddSrcKeepEarlier(reg, path, src) ==
    IF ~src.ok THEN [reg |-> reg, res |-> "parseError"]
    ELSE LET parsed == ParseClasses(reg.classes, path, src.calls) IN
         IF parsed.thrown
         THEN [reg |-> Registry(reg.srcs, SetAll(reg.classes, parsed.classes)),
               res |-> "duplicate"]
         ELSE [reg |-> Registry(
                          MapSet(reg.srcs, path,
                                 [clsnames |-> [i \in 1..Len(parsed.classes) |->
                                                    parsed.classes[i].name]]),
                          SetAll(reg.classes, parsed.classes)),
               res |-> "ok"]

\* _addSrc storing each class in the table as the loop meets it, before the
\* duplicate test ends the call
AddSrcStoreThenTest(reg, path, src) ==
    IF ~src.ok THEN [reg |-> reg, res |-> "parseError"]
    ELSE LET parsed == ParseClasses(reg.classes, path, src.calls)
             all    == ParseClasses(<<>>, path, src.calls)
         IN IF parsed.thrown
            THEN [reg |-> Registry(reg.srcs,
                              SetAll(reg.classes,
                                     SubSeq(all.classes, 1, Len(parsed.classes) + 1))),
                  res |-> "duplicate"]
            ELSE [reg |-> Registry(
                              MapSet(reg.srcs, path,
                                     [clsnames |-> [i \in 1..Len(parsed.classes) |->
                                                        parsed.classes[i].name]]),
                              SetAll(reg.classes, parsed.classes)),
                  res |-> "ok"]

\* SrcMgr._addSrc; src is the file's text: [ok, calls], ok false when
\* esprima.parseScript rejects it
AddSrc(reg, path, src) ==
    IF ~src.ok THEN [reg |-> reg, res |-> "parseError"]
    ELSE LET parsed == ParseClasses(reg.classes, path, src.calls) IN
         IF parsed.thrown THEN [reg |-> reg, res |-> "duplicate"]
         ELSE [reg |-> Registry(
                          MapSet(reg.srcs, path,
                                 [clsnames |-> [i \in 1..Len(parsed.classes) |->
                                                    parsed.classes[i].name]]),
                          SetAll(reg.classes, parsed.classes)),
               res |-> "ok"]

\* checkFile without the call of _removeSrc
CheckFileNoRetract(reg, dsk, path) ==
    IF dsk[path].t = "none" THEN [reg |-> reg, res |-> "notFound"]
    ELSE IF dsk[path].t = "dir" THEN [reg |-> reg, res |-> "ioError"]
    ELSE AddSrc(reg, path, dsk[path].src)

\* checkFile retracting only once the text has been parsed
CheckFileParseFirst(reg, dsk, path) ==
    IF dsk[path].t = "none" THEN [reg |-> RemoveSrc(reg, path), res |-> "notFound"]
    ELSE IF dsk[path].t = "dir" THEN [reg |-> RemoveSrc(reg, path), res |-> "ioError"]
    ELSE IF ~dsk[path].src.ok THEN [reg |-> reg, res |-> "parseError"]
    ELSE AddSrc(RemoveSrc(reg, path), path, dsk[path].src)

\* checkFile reading the file before it retracts
CheckFileReadFirst(reg, dsk, path) ==
    IF dsk[path].t = "none" THEN [reg |-> reg, res |-> "notFound"]
    ELSE IF dsk[path].t = "dir" THEN [reg |-> reg, res |-> "ioError"]
    ELSE AddSrc(RemoveSrc(reg, path), path, dsk[path].src)

\* SrcMgr.checkFile: the registry it leaves and how it ends: "ok" (returns
\* undefined), "notFound" (returns false), or an exception: "parseError",
\* "duplicate", "ioError" (a read failure other than ENOENT)
CheckFileOn(reg, dsk, path) ==
    LET retracted == RemoveSrc(reg, path) IN
    IF dsk[path].t = "none" THEN [reg |-> retracted, res |-> "notFound"]
    ELSE IF dsk[path].t = "dir" THEN [reg |-> retracted, res |-> "ioError"]
    ELSE AddSrc(retracted, path, dsk[path].src)

Raised(res) == res \in {"parseError", "duplicate", "ioError"}

----------------------------------------------------------------------------
(* SrcMgr.genCtags.  The text is kept as the lines pushed to buf, each a   *)
(* sequence of fields (the array handed to join('\t')); a field is text.   *)

Digits == <<"0", "1", "2", "3", "4", "5", "6", "7", "8", "9">>

RECURSIVE NatText(_)
\* a line number turned into text by string concatenation
NatText(n) ==
    IF n < 10 THEN <<Digits[n + 1]>>
    ELSE NatText(n \div 10) \o <<Digits[(n % 10) + 1]>>

\* the template literal pushed first: four lines
Header ==
    << <<<<"!", "_", "T", "A", "G", "_", "F", "I", "L", "E", "_", "F", "O", "R", "M", "A", "T">>, <<"2">>>>,
       <<<<"!", "_", "T", "A", "G", "_", "F", "I", "L", "E", "_", "S", "O", "R", "T", "E", "D">>, <<"1">>,
         <<"/", "0", "=", "u", "n", "s", "o", "r", "t", "e", "d", ",", " ", "1", "=", "s", "o", "r", "t", "e", "d", "/">>>>,
       <<<<"!", "_", "T", "A", "G", "_", "P", "R", "O", "G", "R", "A", "M", "_", "N", "A", "M", "E">>,
         <<"q", "x", "t", "a", "g", "s">>>>,
       <<<<"!", "_", "T", "A", "G", "_", "P", "R", "O", "G", "R", "A", "M", "_", "V", "E", "R", "S", "I", "O", "N">>,
         <<"0", ".", "1">>>> >>

Member(kind, m) == [kind |-> kind, name |-> m.name, lineno |-> m.line, signature |-> m.signature]

KindOf(tags, kind) == [i \in 1..Len(tags) |-> Member(kind, tags[i])]

\* the members array before it is sorted: the six loops, in the code's order
CollectMembers(cls) ==
    KindOf(cls.include, <<"n">>) \o KindOf(cls.implement, <<"i">>) \o
    KindOf(cls.methods, <<"m">>) \o KindOf(cls.properties, <<"p">>) \o
    KindOf(cls.statics, <<"s">>) \o KindOf(cls.events, <<"e">>)

\* a comparator that also puts a after b when their lines are equal
SortsAfterOrEqual(a, b) == a.lineno >= b.lineno

\* the comparator (a, b) => a.lineno - b.lineno says a sorts after b
SortsAfter(a, b) == a.lineno > b.lineno

RECURSIVE InsertSorted(_, _)
\* m placed behind every element it does not sort before: equal keys keep
\* their order (Array.prototype.sort is stable)
InsertSorted(sorted, m) ==
    IF sorted = <<>> THEN <<m>>
    ELSE IF SortsAfter(Head(sorted), m) THEN <<m>> \o sorted
    ELSE <<Head(sorted)>> \o InsertSorted(Tail(sorted), m)

RECURSIVE SortFrom(_, _)
SortFrom(sorted, rest) ==
    IF rest = <<>> THEN sorted
    ELSE SortFrom(InsertSorted(sorted, Head(rest)), Tail(rest))

\* members.sort((a, b) => a.lineno - b.lineno)
SortMembers(members) == SortFrom(<<>>, members)

\* the access with its two tests in the other order: one underscore first
AccessOneFirst(name) ==
    IF StartsWith(name, <<"_">>) THEN <<"p", "r", "i", "v", "a", "t", "e">>
    ELSE IF StartsWith(name, <<"_", "_">>) THEN <<"p", "r", "o", "t", "e", "c", "t", "e", "d">>
    ELSE <<"p", "u", "b", "l", "i", "c">>

\* the access derived from the member's name
Access(name) ==
    IF StartsWith(name, <<"_", "_">>) THEN <<"p", "r", "o", "t", "e", "c", "t", "e", "d">>
    ELSE IF StartsWith(name, <<"_">>) THEN <<"p", "r", "i", "v", "a", "t", "e">>
    ELSE <<"p", "u", "b", "l", "i", "c">>

AddrField(line) == NatText(line) \o <<";", "\"">>

LineField(line) == <<"l", "i", "n", "e", ":">> \o NatText(line)

ClassLine(cls) ==
    <<cls.name, cls.srcPath, AddrField(cls.bodyLine), <<"c">>, LineField(cls.bodyLine),
      <<"t", "y", "p", "e", ":", "c", "l", "a", "s", "s">>>>

ExtendLine(cls) ==
    LET x == cls.extend[1] IN
    <<x.name, cls.srcPath, AddrField(x.line), <<"x">>, LineField(x.line),
      <<"c", "t", "y", "p", "e", ":">> \o cls.name>>

MemberLine(cls, entry) ==
    <<entry.name, cls.srcPath, AddrField(entry.lineno), entry.kind, LineField(entry.lineno),
      <<"c", "t", "y", "p", "e", ":">> \o cls.name,
      <<"a", "c", "c", "e", "s", "s", ":">> \o Access(entry.name)>>
    \o (IF entry.signature # NULL
        THEN <<<<"s", "i", "g", "n", "a", "t", "u", "r", "e", ":">> \o entry.signature>>
        ELSE <<>>)

\* what one turn of the loop over this.classes.values() pushes
ClassLines(cls) ==
    LET members == SortMembers(CollectMembers(cls)) IN
    <<ClassLine(cls)>>
    \o (IF cls.extend # <<>> THEN <<ExtendLine(cls)>> ELSE <<>>)
    \o [i \in 1..Len(members) |-> MemberLine(cls, members[i])]

RECURSIVE EmitClasses(_)
EmitClasses(clsList) ==
    IF clsList = <<>> THEN <<>>
    ELSE ClassLines(Head(clsList)) \o EmitClasses(Tail(clsList))

\* SrcMgr.genCtags
GenCtags(clsMap) == Header \o EmitClasses(MapValues(clsMap))

----------------------------------------------------------------------------
(* The file tree the program runs on *)

ROOT == <<"/", "r">>

SUB == PathJoin(ROOT, <<"s">>)

SUB2 == PathJoin(ROOT, <<"s", "2">>)

DEEP == PathJoin(SUB, <<"d">>)

F == PathJoin(SUB, <<"f", ".", "j", "s">>)

G == PathJoin(SUB2, <<"g", ".", "j", "s">>)

\* a regular file whose name ends with "js" but not with ".js"
N == PathJoin(ROOT, <<"n", "j", "s">>)

DirPaths == {ROOT, SUB, SUB2, DEEP}

JsPaths == {F, G}

FilePaths == JsPaths \cup {N}

Paths == DirPaths \cup FilePaths

\* the directory a path of the tree is an entry of (ROOT hangs under "/")
Parent(p) ==
    CASE p \in {SUB, SUB2, N} -> ROOT
      [] p \in {DEEP, F}      -> SUB
      [] p = G                -> SUB2
      [] OTHER                -> <<"/">>

\* "/" is always there
ParentIsDir(dsk, p) == IF Parent(p) \in Paths THEN dsk[Parent(p)].t = "dir" ELSE TRUE

NoSrc == [ok |-> FALSE, calls |-> <<>>]

Absent == [t |-> "none", src |-> NoSrc]

Directory == [t |-> "dir", src |-> NoSrc]

RegularFile(src) == [t |-> "file", src |-> src]

----------------------------------------------------------------------------
(* The source texts the files are given *)

A == <<"A">>

B == <<"B">>

\* qx.Class.define("A", {            line 1
\*     extend: qx.core.Object,       line 2
\*     members: {
\*         baz: null,                line 4
\*         bar: function () {} } })  line 5
DefA ==
    CallStmt(QxClassDefine, A,
        ObjNode(<<Section("extend", RefNode(<<"q", "x", ".", "O">>, 2)),
                  Section("members",
                      ObjNode(<<IdProp(<<"b", "a", "z">>, LitNode(<<"n", "u", "l", "l">>, 4)),
                                IdProp(<<"b", "a", "r">>, FnNode(<<>>, 5))>>, 3))>>, 1))

\* qx.Class.define("B", {            line 7
\*     statics: { "_s": 1 } })       line 8
DefB ==
    CallStmt(QxClassDefine, B,
        ObjNode(<<Section("statics",
                      ObjNode(<<LitProp(<<"_", "s">>, LitNode(<<"1">>, 8))>>, 8))>>, 7))

Calls == {DefA, DefB}

\* a text esprima rejects
Malformed == [ok |-> FALSE, calls |-> <<>>]

\* a text without a call statement
EmptySrc == [ok |-> TRUE, calls |-> <<>>]

\* the texts the files of a scanned tree are given
DirSources == {[ok |-> TRUE, calls |-> <<DefA>>], [ok |-> TRUE, calls |-> <<DefB>>], Malformed}

----------------------------------------------------------------------------
(* State *)

\* the last operation: its name, its argument, how it ended, what the
\* registry and the known directories were when it began, and whether it
\* repeats the operation before it
Op(op, path, res, pre, rep) ==
    [op |-> op, path |-> path, res |-> res, pre |-> pre, rep |-> rep]

Before == [srcs |-> srcs, classes |-> classes, dirs |-> dirs]

NoBefore == [srcs |-> <<>>, classes |-> <<>>, dirs |-> {}]

Init ==
    /\ disk = [p \in Paths |-> IF p \in {ROOT, SUB, SUB2} THEN Directory ELSE Absent]
    /\ srcs = <<>>
    /\ classes = <<>>
    /\ dirs = {}
    /\ dirQ = <<>>
    /\ pc = "idle"
    /\ events = <<>>
    /\ last = Op("new", <<>>, "ok", NoBefore, FALSE)
    /\ ctags = <<>>

----------------------------------------------------------------------------
(* The environment: the file tree changes between the program's calls *)

\* a text with one call statement taken out
DropCall(calls, i) == SubSeq(calls, 1, i - 1) \o SubSeq(calls, i + 1, Len(calls))

\* the texts one edit away from a node: a file is created empty or broken;
\* a well-formed text gets a call appended, loses a call, or is broken; a
\* broken text is emptied
EditsOf(node) ==
    IF node.t # "file" THEN {EmptySrc, Malformed}
    ELSE IF ~node.src.ok THEN {EmptySrc}
    ELSE {Malformed}
         \cup {[ok |-> TRUE, calls |-> Append(node.src.calls, c)] :
                  c \in IF Len(node.src.calls) < MaxDefs THEN Calls ELSE {}}
         \cup {[ok |-> TRUE, calls |-> DropCall(node.src.calls, i)] :
                  i \in 1..Len(node.src.calls)}

WriteFile(p, src) ==
    /\ pc = "idle"
    /\ ParentIsDir(disk, p)
    /\ disk[p].t # "dir"
    /\ disk[p] # RegularFile(src)
    /\ disk' = [disk EXCEPT ![p] = RegularFile(src)]
    /\ last' = Op("edit", <<>>, "ok", NoBefore, FALSE)
    /\ UNCHANGED <<srcs, classes, dirs, dirQ, pc, events, ctags>>

RemoveFile(p) ==
    /\ pc = "idle"
    /\ disk[p].t = "file"
    /\ disk' = [disk EXCEPT ![p] = Absent]
    /\ last' = Op("edit", <<>>, "ok", NoBefore, FALSE)
    /\ UNCHANGED <<srcs, classes, dirs, dirQ, pc, events, ctags>>

----------------------------------------------------------------------------
(* SrcMgr.checkFile, called as the command line does: once per path *)

CheckFile(p) ==
    /\ pc = "idle"
    /\ LET r == CheckFileOn(Registry(srcs, classes), disk, p) IN
        /\ srcs' = r.reg.srcs
        /\ classes' = r.reg.classes
        /\ last' = Op("checkFile", p, r.res, Before,
                      last.op = "checkFile" /\ last.path = p)
    /\ UNCHANGED <<disk, dirs, dirQ, pc, events, ctags>>

Next ==
    \/ \E p \in JsPaths : \E src \in EditsOf(disk[p]) : WriteFile(p, src)
    \/ \E p \in JsPaths : RemoveFile(p)
    \/ \E p \in JsPaths \cup {SUB} : CheckFile(p)

Spec == Init /\ [][Next]_vars

----------------------------------------------------------------------------
(* DirMgr: the directory indexer *)

\* the roots scan is called with
ScanRoots == {ROOT, SUB}

\* the name of a path of the tree inside its directory
BaseName(p) == SubSeq(p, Len(Parent(p)) + 2, Len(p))

\* what fs.readdirSync(path) holds: the names of the entries present
EntryNames(dsk, path) == {BaseName(p) : p \in {q \in Paths : Parent(q) = path /\ dsk[q].t # "none"}}

\* the orders readdirSync may return a directory's entries in
Orders(S) == {o \in [1..Cardinality(S) -> S] : \A i, j \in 1..Cardinality(S) : o[i] = o[j] => i = j}

Event(type, path) == [type |-> type, path |-> path]

\* this.emit(type, path): what the observers are handed, with the known
\* directories as they are when the observers run
Notice(type, path, known) == [type |-> type, path |-> path, known |-> known]

\* what a part of scan hands on: registry, known directories, work queue,
\* events so far, and "ok" or the exception that ended it
Step(reg, dirset, q, ev, res) == [reg |-> reg, dirs |-> dirset, q |-> q, ev |-> ev, res |-> res]

\* srcm.checkFile(path) inside scan: the call is noted, an exception ends the scan
CheckIn(st, dsk, path) ==
    LET r == CheckFileOn(st.reg, dsk, path) IN
    Step(r.reg, st.dirs, st.q, Append(st.ev, Event("check", path)),
         IF Raised(r.res) THEN r.res ELSE "ok")

RECURSIVE CheckEach(_, _, _)
\* for (let srcPath of rmSrcs) this.srcm.checkFile(srcPath)
CheckEach(st, dsk, paths) ==
    IF paths = <<>> \/ st.res # "ok" THEN st
    ELSE CheckEach(CheckIn(st, dsk, Head(paths)), dsk, Tail(paths))

\* DirMgr._rm
Rm(st, dsk, path) ==
    IF path \notin st.dirs THEN st
    ELSE LET kept    == {d \in st.dirs : ~StartsWith(d, path)}
             rmSrcs  == SelectSeq(MapKeys(st.reg.srcs), LAMBDA f : StartsWith(f, path))
             checked == CheckEach(Step(st.reg, kept, st.q, st.ev, "ok"), dsk, rmSrcs)
         IN IF checked.res # "ok" THEN checked
            ELSE [checked EXCEPT !.ev = Append(@, Notice("rm", path, checked.dirs))]

\* the turn with the subdirectory put at the front of the queue (unshift)
VisitEntryPushFront(st, dsk, path, name) ==
    LET path2 == PathJoin(path, name) IN
    IF dsk[path2].t = "dir" THEN [st EXCEPT !.q = <<path2>> \o @]
    ELSE IF dsk[path2].t = "file" /\ EndsWith(path2, <<".", "j", "s">>)
    THEN CheckIn(st, dsk, path2)
    ELSE st

\* one turn of the loop over names: stat, then enqueue or check
VisitEntry(st, dsk, path, name) ==
    LET path2 == PathJoin(path, name) IN
    IF dsk[path2].t = "dir" THEN [st EXCEPT !.q = Append(@, path2)]
    ELSE IF dsk[path2].t = "file" /\ EndsWith(path2, <<".", "j", "s">>)
    THEN CheckIn(st, dsk, path2)
    ELSE st

RECURSIVE VisitEntries(_, _, _, _)
\* for (let name of names) ...
VisitEntries(st, dsk, path, names) ==
    IF names = <<>> \/ st.res # "ok" THEN st
    ELSE VisitEntries(VisitEntry(st, dsk, path, Head(names)), dsk, path, Tail(names))

\* the listing with 'add' emitted when the turn begins, before the entries are
\* visited and the directory is marked as known
ListDirAddFirst(st, dsk, path, names) ==
    LET announced == [st EXCEPT !.ev = IF path \notin st.dirs
                                       THEN Append(@, Notice("add", path, st.dirs)) ELSE @]
        visited   == VisitEntries(announced, dsk, path, names)
    IN IF visited.res # "ok" THEN visited
       ELSE [visited EXCEPT !.dirs = @ \cup {path}]

\* the listing without this.dirs.add(path): the directory is announced but
\* not marked as known
ListDirNoMark(st, dsk, path, names) ==
    LET visited == VisitEntries(st, dsk, path, names) IN
    IF visited.res # "ok" THEN visited
    ELSE [visited EXCEPT !.ev = IF path \notin visited.dirs
                                THEN Append(@, Notice("add", path, visited.dirs)) ELSE @]

\* a directory that is not yet known is listed: its entries are visited, it
\* becomes known, and 'add' is emitted
ListDir(st, dsk, path, names) ==
    LET visited == VisitEntries(st, dsk, path, names) IN
    IF visited.res # "ok" THEN visited
    ELSE [visited EXCEPT !.dirs = @ \cup {path},
                         !.ev = IF path \notin visited.dirs
                                THEN Append(@, Notice("add", path, visited.dirs \cup {path}))
                                ELSE @]

Here == Step(Registry(srcs, classes), dirs, Tail(dirQ), events, "ok")

\* the state after a turn of scan's loop that ended as st says
Continue(st) ==
    /\ srcs' = st.reg.srcs
    /\ classes' = st.reg.classes
    /\ dirs' = st.dirs
    /\ events' = st.ev
    /\ IF st.res = "ok"
       THEN dirQ' = st.q /\ pc' = "scan" /\ last' = last
       ELSE dirQ' = <<>> /\ pc' = "raised" /\ last' = [last EXCEPT !.res = st.res]
    /\ UNCHANGED <<disk, ctags>>

\* scan(path): dirQ = [path]
ScanBegin(root) ==
    /\ pc = "idle"
    /\ pc' = "scan"
    /\ dirQ' = <<root>>
    /\ events' = <<>>
    /\ last' = Op("scan", root, "running", Before, FALSE)
    /\ UNCHANGED <<disk, srcs, classes, dirs, ctags>>

\* a turn of the loop: readdirSync fails with ENOENT (a path of the queue is
\* a directory or absent, never a regular file, so no other failure occurs)
ScanGone ==
    /\ pc = "scan" /\ dirQ # <<>>
    /\ disk[Head(dirQ)].t = "none"
    /\ Continue(Rm(Here, disk, Head(dirQ)))

\* a turn of the loop: the directory is listed, and skipped as already known
ScanKnown ==
    /\ pc = "scan" /\ dirQ # <<>>
    /\ disk[Head(dirQ)].t = "dir"
    /\ Head(dirQ) \in dirs
    /\ Continue([Here EXCEPT !.ev = Append(@, Event("list", Head(dirQ)))])

\* a turn of the loop: the directory is listed and its entries are visited
ScanList ==
    /\ pc = "scan" /\ dirQ # <<>>
    /\ disk[Head(dirQ)].t = "dir"
    /\ Head(dirQ) \notin dirs
    /\ \E names \in Orders(EntryNames(disk, Head(dirQ))) :
          Continue(ListDir([Here EXCEPT !.ev = Append(@, Event("list", Head(dirQ)))],
                           disk, Head(dirQ), names))

\* the queue is empty: scan returns
ScanEnd ==
    /\ pc = "scan" /\ dirQ = <<>>
    /\ pc' = "idle"
    /\ last' = [last EXCEPT !.res = "ok"]
    /\ UNCHANGED <<disk, srcs, classes, dirs, dirQ, events, ctags>>

\* the directories and files under d, d included
Under(d) == {p \in Paths : p = d \/ StartsWith(p, d \o <<"/">>)}

MkDir(d) ==
    /\ pc = "idle"
    /\ ParentIsDir(disk, d)
    /\ disk[d].t = "none"
    /\ disk' = [disk EXCEPT ![d] = Directory]
    /\ last' = Op("edit", <<>>, "ok", NoBefore, FALSE)
    /\ UNCHANGED <<srcs, classes, dirs, dirQ, pc, events, ctags>>

\* a directory is removed with all it holds
RmDir(d) ==
    /\ pc = "idle"
    /\ disk[d].t = "dir"
    /\ disk' = [p \in Paths |-> IF p \in Under(d) THEN Absent ELSE disk[p]]
    /\ last' = Op("edit", <<>>, "ok", NoBefore, FALSE)
    /\ UNCHANGED <<srcs, classes, dirs, dirQ, pc, events, ctags>>

\* the file tree changes between calls
TreeChange ==
    \/ \E p \in JsPaths : \E src \in DirSources : WriteFile(p, src)
    \/ WriteFile(N, EmptySrc)
    \/ \E p \in FilePaths : RemoveFile(p)
    \/ \E d \in DirPaths : MkDir(d)
    \/ \E d \in DirPaths : RmDir(d)

\* a turn of the loop of scan
ScanTurn ==
    \/ ScanGone
    \/ ScanKnown
    \/ ScanList
    \/ ScanEnd

\* the caller of scan has caught the exception and goes on
Recover ==
    /\ pc = "raised"
    /\ pc' = "idle"
    /\ UNCHANGED <<disk, srcs, classes, dirs, dirQ, events, last, ctags>>

NextDir ==
    \/ TreeChange
    \/ \E root \in ScanRoots : ScanBegin(root)
    \/ ScanTurn
    \/ Recover

\* a DirMgr whose scan is called with any of the roots
SpecDir == Init /\ [][NextDir]_vars

NextRoot ==
    \/ TreeChange
    \/ ScanBegin(ROOT)
    \/ ScanTurn

\* a DirMgr whose scan is only ever called with ROOT, in a run that an
\* exception ends
SpecRoot == Init /\ [][NextRoot]_vars

NextRun ==
    \/ TreeChange
    \/ \E root \in ScanRoots : ScanBegin(root)
    \/ ScanTurn

\* a DirMgr whose scan is called with any of the roots, in a run that an
\* exception ends
SpecRun == Init /\ [][NextRun]_vars

\* what a path of the tree may hold when the program starts
TreeNodes(p) ==
    CASE p \in DirPaths -> {Absent, Directory}
      [] p = F -> {Absent, RegularFile([ok |-> TRUE, calls |-> <<DefA>>])}
      [] p = G -> {Absent, RegularFile([ok |-> TRUE, calls |-> <<DefB>>]),
                   RegularFile([ok |-> TRUE, calls |-> <<DefA>>])}
      [] p = N -> {Absent}

\* the file trees: every entry present lies in a directory that is present
Trees ==
    {t \in [Paths -> UNION {TreeNodes(p) : p \in Paths}] :
        \A p \in Paths : t[p] \in TreeNodes(p) /\ (t[p].t # "none" => ParentIsDir(t, p))}

\* a fresh DirMgr on any of the trees
InitTree ==
    /\ disk \in Trees
    /\ srcs = <<>>
    /\ classes = <<>>
    /\ dirs = {}
    /\ dirQ = <<>>
    /\ pc = "idle"
    /\ events = <<>>
    /\ last = Op("new", <<>>, "ok", NoBefore, FALSE)
    /\ ctags = <<>>

NextScan ==
    \/ \E d \in DirPaths : RmDir(d)
    \/ \E root \in ScanRoots : ScanBegin(root)
    \/ ScanTurn

\* scan calls on a tree that only changes, by losing directories, between
\* the calls; the loop of a call goes on until the call ends: the program is
\* single-threaded and synchronous, nothing suspends a call
SpecScan == InitTree /\ [][NextScan]_vars /\ WF_vars(ScanTurn)

----------------------------------------------------------------------------
(* The tag emitter on one file.  The file defines a class E whose body has *)
(* the six member sections in any source order, SectionsPerLine of them to *)
(* a line, behind a constructor, and class B.                              *)

E == <<"E">>

SectionKeys == {"include", "implement", "members", "properties", "statics", "events"}

\* a section of the class body that starts, with all it holds, on one line
SectionOn(key, line) ==
    CASE key = "include" ->
            Section(key, ArrNode(<<RefNode(<<"q", "x", ".", "M", "A">>, line),
                                   RefNode(<<"q", "x", ".", "M", "B">>, line)>>, line))
      [] key = "implement" -> Section(key, RefNode(<<"q", "x", ".", "I">>, line))
      [] key = "members" ->
            Section(key, ObjNode(<<IdProp(<<"_", "_", "m", "e">>, FnNode(<<<<"a">>, <<"b">>>>, line)),
                                   IdProp(<<"f", "l", "d">>, LitNode(<<"n", "u", "l", "l">>, line))>>, line))
      [] key = "properties" -> Section(key, ObjNode(<<IdProp(<<"_", "p", "r">>, ObjNode(<<>>, line))>>, line))
      [] key = "statics" -> Section(key, ObjNode(<<LitProp(<<"S", "T">>, LitNode(<<"1">>, line))>>, line))
      [] key = "events" -> Section(key, ObjNode(<<LitProp(<<"e", "v">>, LitNode(<<"'", "E", "'">>, line))>>, line))

\* the line the k-th section starts on; the body opens on line 1 and the
\* constructor stands on line 2
SectionLine(k) == 2 + ((k - 1) \div SectionsPerLine)

\* qx.Class.define("E", { construct: function () {}, <the sections in the
\* given order> [, extend: qx.O] })
DefE(order, extends) ==
    CallStmt(QxClassDefine, E,
        ObjNode(<<Section("construct", FnNode(<<>>, 2))>>
                \o [k \in 1..Len(order) |-> SectionOn(order[k], SectionLine(k))]
                \o (IF extends
                    THEN <<Section("extend", RefNode(<<"q", "x", ".", "O">>, SectionLine(Len(order)) + 1))>>
                    ELSE <<>>),
                1))

InitEmit ==
    /\ \E order \in Orders(SectionKeys), extends \in BOOLEAN :
          disk = [p \in Paths |->
                     IF p \in {ROOT, SUB, SUB2} THEN Directory
                     ELSE IF p = F
                     THEN RegularFile([ok |-> TRUE, calls |-> <<DefE(order, extends), DefB>>])
                     ELSE Absent]
    /\ srcs = <<>>
    /\ classes = <<>>
    /\ dirs = {}
    /\ dirQ = <<>>
    /\ pc = "idle"
    /\ events = <<>>
    /\ last = Op("new", <<>>, "ok", NoBefore, FALSE)
    /\ ctags = <<>>

\* console.log(sm.genCtags())
EmitTags ==
    /\ pc = "idle"
    /\ ctags' = GenCtags(classes)
    /\ last' = Op("genCtags", <<>>, "ok", NoBefore, FALSE)
    /\ UNCHANGED <<disk, srcs, classes, dirs, dirQ, pc, events>>

NextEmit ==
    \/ CheckFile(F)
    \/ EmitTags

SpecEmit == InitEmit /\ [][NextEmit]_vars

----------------------------------------------------------------------------
(* What the claims speak of *)

\* the class names the class table holds under owning path q
Owned(clsMap, q) == {clsMap[i].k : i \in {j \in 1..Len(clsMap) : clsMap[j].v.srcPath = q}}

\* the class names FileOwnership(q) lists (none when q is not tracked)
Listed(srcMap, q) ==
    IF MapHas(srcMap, q)
    THEN {MapGet(srcMap, q).clsnames[i] : i \in 1..Len(MapGet(srcMap, q).clsnames)}
    ELSE {}

\* the class names a source text defines
Defined(src) ==
    {src.calls[i].name : i \in {j \in 1..Len(src.calls) : src.calls[j].callee = QxClassDefine}}

\* the last operation was checkFile(p) and ended with res
Checked(p, res) == last.op = "checkFile" /\ last.path = p /\ last.res = res

Returned == last.op = "checkFile" /\ ~Raised(last.res)

\* C1: after every checkFile that returns without raising, for every tracked
\* path q the class names the class table holds under owning path q are
\* exactly the names FileOwnership(q) lists.
C1_OwnershipExact ==
    Returned => \A q \in MapKeySet(srcs) : Owned(classes, q) = Listed(srcs, q)

C1_Witness ==
    /\ Checked(F, "ok")
    /\ MapKeySet(srcs) = {F, G}
    /\ Owned(classes, F) = {A}
    /\ Owned(classes, G) = {B}

\* C2: in every reachable state, also after a checkFile that reported "not
\* found" or raised, every record of the class table has an owning path that
\* is a key of the file-ownership map.
C2_NoOrphanClass ==
    \A i \in 1..Len(classes) : classes[i].v.srcPath \in MapKeySet(srcs)

C2_Witness ==
    /\ Checked(F, "duplicate")
    /\ MapHas(last.pre.srcs, F)
    /\ classes # <<>>

\* C3: pruning.  When checkFile(p) succeeds on a path that held the classes
\* S1 from its previous check and whose text now defines S2, p owns exactly
\* S2 afterwards and no name of S1 \ S2 is left in the class table.
C3_Pruning ==
    \A p \in JsPaths :
        Checked(p, "ok") =>
            /\ Owned(classes, p) = Defined(disk[p].src)
            /\ \A n \in Listed(last.pre.srcs, p) \ Defined(disk[p].src) : ~MapHas(classes, n)

C3_Witness ==
    /\ Checked(F, "ok")
    /\ Listed(last.pre.srcs, F) = {A, B}
    /\ Defined(disk[F].src) = {B}
    /\ MapKeySet(classes) = {B}

\* C4: idempotence.  A checkFile(p) that directly follows a checkFile(p), the
\* file unchanged in between, leaves the registry (file-ownership map and
\* class table, order included) as it found it, and so the same tag text.
C4_Idempotent ==
    (last.op = "checkFile" /\ last.rep) =>
        /\ Registry(srcs, classes) = Registry(last.pre.srcs, last.pre.classes)
        /\ GenCtags(classes) = GenCtags(last.pre.classes)

C4_Witness ==
    /\ Checked(F, "ok")
    /\ last.rep
    /\ MapKeys(srcs) = <<G, F>>
    /\ MapKeys(classes) = <<B, A>>

\* C5: deletion.  checkFile(p) on a tracked path whose file is gone does not
\* raise, reports "not found", and leaves p untracked and none of the class
\* names p owned in the class table.
C5_Deletion ==
    \A p \in JsPaths :
        (last.op = "checkFile" /\ last.path = p /\ MapHas(last.pre.srcs, p)
            /\ disk[p].t = "none") =>
            /\ last.res = "notFound"
            /\ ~MapHas(srcs, p)
            /\ \A n \in Listed(last.pre.srcs, p) : ~MapHas(classes, n)

C5_Witness ==
    /\ Checked(F, "notFound")
    /\ Listed(last.pre.srcs, F) = {A, B}

\* the names the text of p defines that the class table held under another path
HeldByOther(clsMap, p, src) ==
    {n \in Defined(src) : MapHas(clsMap, n) /\ MapGet(clsMap, n).srcPath # p}

\* C6: duplicate detection.  checkFile(p) on a readable, well-formed file
\* raises the duplicate error whenever its text defines a name the class table
\* holds under another path, and never when the names it defines are held, if
\* at all, only by p itself.
C6_DuplicateDetection ==
    \A p \in JsPaths :
        (last.op = "checkFile" /\ last.path = p /\ disk[p].t = "file" /\ disk[p].src.ok) =>
            (last.res = "duplicate" <=> HeldByOther(last.pre.classes, p, disk[p].src) # {})

C6_Witness ==
    /\ Checked(G, "duplicate")
    /\ Owned(classes, F) = {A}
    /\ Defined(disk[G].src) = {A, B}

C6_WitnessRecheck ==
    /\ Checked(F, "ok")
    /\ last.rep
    /\ Listed(last.pre.srcs, F) = {A}

\* the last operation was scan(root) and it returned
Scanned(root) == last.op = "scan" /\ last.path = root /\ last.res = "ok"

\* the paths of the tree strictly below directory d
Below(d) == {p \in Paths : StartsWith(p, d \o <<"/">>)}

\* the name of p ends with ".js"
HasJsName(p) ==
    LET n == BaseName(p) IN
    Len(n) >= 3 /\ n[Len(n) - 2] = "." /\ n[Len(n) - 1] = "j" /\ n[Len(n)] = "s"

\* how often the scan delivered or did something
Count(type, path) ==
    Cardinality({i \in 1..Len(events) : events[i].type = type /\ events[i].path = path})

\* C7: directory removal cascade.  When scan(R) returns and R/sub, known and
\* indexed with a file defining Q when the call began, is gone from disk, then
\* Q is out of the registry, exactly one 'rm' carrying R/sub was emitted, and
\* the classes of files outside R/sub are still in the registry.
C7_RemovalCascade ==
    (Scanned(ROOT) /\ SUB \in last.pre.dirs /\ Listed(last.pre.srcs, F) # {}
        /\ disk[SUB].t = "none") =>
        /\ \A n \in Listed(last.pre.srcs, F) : ~MapHas(classes, n)
        /\ Count("rm", SUB) = 1
        /\ \A n \in Owned(last.pre.classes, G) : n \in Owned(classes, G)

\* C8: once a scan(R) returns without raising, the paths the registry tracks
\* are the regular files with the source extension now on disk under R, and
\* every tracked file owns the classes its present text defines.
C8_RegistryFollowsTree ==
    Scanned(ROOT) =>
        /\ MapKeySet(srcs) =
              {p \in Below(ROOT) : disk[p].t = "file" /\ HasJsName(p)}
        /\ \A p \in MapKeySet(srcs) : Owned(classes, p) = Defined(disk[p].src)

\* the paths the scan passed to checkFile
CheckedPaths == {events[i].path : i \in {j \in 1..Len(events) : events[j].type = "check"}}

\* the scan started on a fresh indexer, at a root that exists, and returned
FirstScan(root) ==
    /\ Scanned(root)
    /\ last.pre = NoBefore
    /\ disk[root].t = "dir"

\* C9: first scan completeness.  A scan(R) on a fresh indexer that returns
\* has passed to checkFile exactly the regular files below R, at any depth,
\* whose name ends with ".js", and leaves as known directories exactly R and
\* every directory below R.
C9_FirstScanComplete ==
    \A root \in ScanRoots :
        FirstScan(root) =>
            /\ CheckedPaths =
                  {p \in Below(root) : disk[p].t = "file" /\ HasJsName(p)}
            /\ dirs = {root} \cup {d \in Below(root) : disk[d].t = "dir"}

C9_Witness ==
    /\ FirstScan(ROOT)
    /\ disk[N].t = "file"
    /\ CheckedPaths = {F, G}
    /\ dirs = {ROOT, SUB, SUB2, DEEP}

\* the lines genCtags pushes for one class: 1, the extends line, the members
BlockLen(cls) == 1 + Len(cls.extend) + Len(CollectMembers(cls))

RECURSIVE BlockOffset(_, _)
\* the number of lines of the text before the k-th class's first line
BlockOffset(clsList, k) ==
    IF k = 1 THEN Len(Header) ELSE BlockOffset(clsList, k - 1) + BlockLen(clsList[k - 1])

\* where the member of that name stands in the encounter order
EncounterIndex(cls, name) ==
    CHOOSE j \in 1..Len(CollectMembers(cls)) : CollectMembers(cls)[j].name = name

\* C10: emission order per class.  genCtags emits for each class its class
\* record, then its extends record if it has a superclass, then one record
\* per member of the six kinds in ascending line order whatever the section;
\* members of equal line keep their encounter order (include, implement,
\* methods, properties, statics, events).
C10_EmissionOrder ==
    last.op = "genCtags" =>
        LET clsList == MapValues(classes) IN
        /\ Len(ctags) = BlockOffset(clsList, Len(clsList) + 1)
        /\ \A k \in 1..Len(clsList) :
              LET cls == clsList[k]
                  ms  == CollectMembers(cls)
                  nx  == Len(cls.extend)
                  o   == BlockOffset(clsList, k)
                  at(i) == EncounterIndex(cls, ctags[o + 1 + nx + i][1])
              IN /\ ctags[o + 1][1] = cls.name /\ ctags[o + 1][4] = <<"c">>
                 /\ nx = 1 => (ctags[o + 2][1] = cls.extend[1].name /\ ctags[o + 2][4] = <<"x">>)
                 /\ \A i \in 1..Len(ms) :
                       /\ \E j \in 1..Len(ms) : ctags[o + 1 + nx + i][1] = ms[j].name
                       /\ ctags[o + 1 + nx + i] = MemberLine(cls, ms[at(i)])
                 /\ \A i1, i2 \in 1..Len(ms) :
                       i1 < i2 =>
                          \/ ms[at(i1)].lineno < ms[at(i2)].lineno
                          \/ ms[at(i1)].lineno = ms[at(i2)].lineno /\ at(i1) < at(i2)

\* the class E is emitted with its superclass and with members of one line
\* that come from different sections
C10_Witness ==
    /\ last.op = "genCtags"
    /\ MapKeys(classes) = <<E, B>>
    /\ MapGet(classes, E).extend # <<>>
    /\ Len(ctags) = Len(Header) + 11 + 2
    /\ \E i \in Len(Header) + 1..Len(ctags) - 1 :
          /\ ctags[i][4] = <<"e">> /\ ctags[i + 1][4] = <<"n">>
    /\ \E i \in Len(Header) + 1..Len(ctags) - 1 :
          /\ ctags[i][4] = <<"m">> /\ ctags[i + 1][4] = <<"s">>
          /\ ctags[i][5] = ctags[i + 1][5]

\* the access the leading underscores of a name stand for
AccessOfName(name) ==
    IF Len(name) >= 2 /\ name[1] = "_" /\ name[2] = "_" THEN "protected"
    ELSE IF Len(name) >= 1 /\ name[1] = "_" THEN "private"
    ELSE "public"

\* the text of an access level
AccessText(level) ==
    CASE level = "protected" -> <<"p", "r", "o", "t", "e", "c", "t", "e", "d">>
      [] level = "private"   -> <<"p", "r", "i", "v", "a", "t", "e">>
      [] level = "public"    -> <<"p", "u", "b", "l", "i", "c">>

AccessPrefix == <<"a", "c", "c", "e", "s", "s", ":">>

\* the fields of a record that are access fields
AccessFields(line) == {i \in 1..Len(line) : StartsWith(line[i], AccessPrefix)}

\* the records of the emitted text (the lines behind the header)
Records == {i \in 1..Len(ctags) : i > Len(Header)}

\* C11: access inference.  Every emitted member record carries one access
\* field, which depends on the member's name only: a name starting with two
\* underscores gives protected, with exactly one underscore private, any
\* other name public.  Class and extends records carry no access field.
C11_AccessInference ==
    last.op = "genCtags" =>
        \A i \in Records :
            IF ctags[i][4] \in {<<"c">>, <<"x">>}
            THEN AccessFields(ctags[i]) = {}
            ELSE /\ AccessFields(ctags[i]) = {7}
                 /\ ctags[i][7] = AccessPrefix \o AccessText(AccessOfName(ctags[i][1]))

\* class E and class B are emitted: members of the three access levels, a
\* class record and an extends record
C11_Witness ==
    /\ last.op = "genCtags"
    /\ \A level \in {"protected", "private", "public"} :
          \E i \in Records : /\ ctags[i][4] \notin {<<"c">>, <<"x">>}
                             /\ AccessOfName(ctags[i][1]) = level
                             /\ ctags[i][7] = AccessPrefix \o AccessText(level)
    /\ \E i \in Records : ctags[i][4] = <<"c">>
    /\ \E i \in Records : ctags[i][4] = <<"x">>

\* the entries of the file-ownership map of the paths other than p, in order
OtherFiles(srcMap, p) == SelectSeq(srcMap, LAMBDA e : e.k # p)

\* the records of the class table owned by paths other than p, in order
OtherRecords(clsMap, p) == SelectSeq(clsMap, LAMBDA e : e.v.srcPath # p)

\* C12: frame of checkFile.  checkFile(p), however it ends, leaves the
\* FileOwnership entry of every other path and every class record owned by
\* another path as they were (order included), and retracts exactly what p
\* had contributed: a name p listed is in the table afterwards only when the
\* call succeeded and p's present text defines it again.
C12_CheckFileFrame ==
    last.op = "checkFile" =>
        LET p == last.path IN
        /\ OtherFiles(srcs, p) = OtherFiles(last.pre.srcs, p)
        /\ OtherRecords(classes, p) = OtherRecords(last.pre.classes, p)
        /\ \A n \in Listed(last.pre.srcs, p) :
              MapHas(classes, n) =>
                 /\ last.res = "ok"
                 /\ n \in Defined(disk[p].src)
                 /\ MapGet(classes, n).srcPath = p
        /\ Owned(classes, p) # {} => last.res = "ok"

\* a failed re-check of F, which held A, beside G holding B
C12_Witness ==
    /\ Checked(F, "duplicate")
    /\ Listed(last.pre.srcs, F) = {A}
    /\ MapKeys(last.pre.srcs) = <<G, F>>
    /\ MapKeys(srcs) = <<G>>
    /\ MapKeys(classes) = <<B>>

\* a successful re-check of F, which held A and B and now defines B, beside G
C12_WitnessOk ==
    /\ Checked(F, "ok")
    /\ Listed(last.pre.srcs, F) = {A, B}
    /\ MapHas(srcs, G)
    /\ MapKeySet(classes) = {B}

\* C13: when checkFile(p) fails with the duplicate-class-name error because a
\* name X is held by another path p', the table's entry for X is afterwards
\* the record it was, owned by p', and p' still lists X.
C13_DuplicateKeepsHolder ==
    \A p \in JsPaths :
        Checked(p, "duplicate") =>
            \A n \in HeldByOther(last.pre.classes, p, disk[p].src) :
                /\ MapHas(classes, n)
                /\ MapGet(classes, n) = MapGet(last.pre.classes, n)
                /\ MapGet(classes, n).srcPath # p
                /\ n \in Listed(srcs, MapGet(classes, n).srcPath)

\* G, which owned B, now also defines A, which F holds
C13_Witness ==
    /\ Checked(G, "duplicate")
    /\ HeldByOther(last.pre.classes, G, disk[G].src) = {A}
    /\ Listed(last.pre.srcs, G) = {B}
    /\ MapGet(classes, A).srcPath = F
    /\ A \in Listed(srcs, F)

\* the calls of a text that define a class, in order
ClassDefs(src) == SelectSeq(src.calls, LAMBDA c : c.callee = QxClassDefine)

\* the place, among the classes the text of p defines, of the first one whose
\* name the class table held under another path (0 when there is none)
DupIndex(clsMap, p, src) ==
    LET defs == ClassDefs(src)
        dup(i) == MapHas(clsMap, defs[i].name) /\ MapGet(clsMap, defs[i].name).srcPath # p
    IN IF \E i \in 1..Len(defs) : dup(i)
       THEN CHOOSE i \in 1..Len(defs) : dup(i) /\ \A j \in 1..(i - 1) : ~dup(j)
       ELSE 0

\* the names of the classes of p the loop processed before the conflicting one
EarlierNames(clsMap, p, src) ==
    {ClassDefs(src)[j].name : j \in 1..(DupIndex(clsMap, p, src) - 1)}

\* C14 as stated: when checkFile(p) fails with the duplicate-class-name error
\* on the k-th class of p, the records of the first k-1 classes of p are in
\* the class table after the failure.
C14_EarlierRecordsRemain ==
    \A p \in JsPaths :
        Checked(p, "duplicate") =>
            \A n \in EarlierNames(last.pre.classes, p, disk[p].src) :
                MapHas(classes, n) /\ MapGet(classes, n).srcPath = p

\* C14 amended: when checkFile(p) fails with the duplicate-class-name error
\* on the k-th class of p, none of the first k-1 classes of p is in the class
\* table after the failure, and the table holds no record owned by p.
C14_EarlierRecordsDropped ==
    \A p \in JsPaths :
        Checked(p, "duplicate") =>
            /\ \A n \in EarlierNames(last.pre.classes, p, disk[p].src) : ~MapHas(classes, n)
            /\ Owned(classes, p) = {}

\* F, which held A, now defines A and then B, which G holds: the error comes
\* on the second class
C14_Witness ==
    /\ Checked(F, "duplicate")
    /\ DupIndex(last.pre.classes, F, disk[F].src) = 2
    /\ EarlierNames(last.pre.classes, F, disk[F].src) = {A}
    /\ Listed(last.pre.srcs, F) = {A}
    /\ MapKeySet(classes) = {B}

\* C15: fatal parse error.  When checkFile(p) raises because the text of p is
\* malformed, p is afterwards no key of the file-ownership map and no class p
\* owned before is in the class table, also when p had been indexed before.
C15_ParseErrorLeavesAbsent ==
    \A p \in JsPaths :
        Checked(p, "parseError") =>
            /\ ~MapHas(srcs, p)
            /\ \A n \in Listed(last.pre.srcs, p) \cup Owned(last.pre.classes, p) :
                  ~MapHas(classes, n)
            /\ Owned(classes, p) = {}

\* F, indexed with A, has become malformed; G is indexed with B
C15_Witness ==
    /\ Checked(F, "parseError")
    /\ Owned(last.pre.classes, F) = {A}
    /\ MapKeys(last.pre.srcs) = <<F, G>>
    /\ MapKeys(srcs) = <<G>>
    /\ MapKeys(classes) = <<B>>

\* what a step of the scan did and delivered: the events it appended
NewEvents ==
    IF Len(events') >= Len(events) /\ SubSeq(events', 1, Len(events)) = events
    THEN SubSeq(events', Len(events) + 1, Len(events'))
    ELSE <<>>

\* how often a step did or delivered something
NewCount(type, path) ==
    Cardinality({i \in 1..Len(NewEvents) :
                    NewEvents[i].type = type /\ NewEvents[i].path = path})

\* a step delivered an 'rm' that removed directory d from the known set
RemovedByRm(d) ==
    \E i \in 1..Len(NewEvents) :
        /\ NewEvents[i].type = "rm"
        /\ SubSeq(d, 1, Len(NewEvents[i].path)) = NewEvents[i].path

\* C16: add notifications.  Over any sequence of scan calls, in every turn of
\* scan that an exception does not end, 'add' carrying D is emitted (once)
\* exactly when D is listed while not known, and D is then known; a turn that
\* raises emits no 'add'; D becomes known only with an 'add' and leaves the
\* known set only with an 'rm' that removed it, so two 'add' for the same D
\* have such an 'rm' between them.
C16_AddNotifications ==
    [][\A d \in DirPaths :
          /\ NewCount("add", d) <= 1
          /\ NewCount("add", d) = 1 =>
                (NewCount("list", d) = 1 /\ d \notin dirs /\ d \in dirs')
          /\ pc' # "raised" =>
                /\ (NewCount("list", d) = 1 /\ d \notin dirs) => NewCount("add", d) = 1
                /\ (d \notin dirs /\ d \in dirs') => NewCount("add", d) = 1
                /\ (d \in dirs /\ d \notin dirs') => RemovedByRm(d)]_vars

\* SUB is announced again by a scan that began with ROOT known and SUB, once
\* removed, not known
C16_Witness ==
    /\ last.op = "scan" /\ last.path = SUB
    /\ ROOT \in last.pre.dirs
    /\ SUB \notin last.pre.dirs
    /\ MapHas(last.pre.srcs, G)
    /\ SUB2 \notin last.pre.dirs
    /\ Count("add", SUB) = 1
    /\ SUB \in dirs

\* a scan of the vanished SUB has delivered 'rm' and SUB is no longer known
C16_WitnessRm ==
    /\ last.op = "scan" /\ last.path = SUB
    /\ SUB \in last.pre.dirs
    /\ Count("rm", SUB) = 1
    /\ SUB \notin dirs

\* text s begins with text p
HasPrefix(s, p) == Len(s) >= Len(p) /\ \A k \in 1..Len(p) : s[k] = p[k]

\* the regular files directly inside directory d that scan passes on
EligibleIn(d) == {f \in Paths : Parent(f) = d /\ disk[f].t = "file" /\ HasJsName(f)}

\* the step passed f to checkFile before its i-th event
CheckedBefore(f, i) == \E j \in 1..(i - 1) : NewEvents[j] = Event("check", f)

\* C17: notifications are in-line with the traversal.  When the observers
\* receive 'add' for D, every eligible file directly inside D has been passed
\* to checkFile and D is in the known set; when they receive 'rm' for P, no
\* known directory prefixed by P remains and every file tracked under P has
\* been re-checked; and every notification is delivered inside the scan call,
\* before it returns.
C17_NotificationsInline ==
    [][\A i \in 1..Len(NewEvents) :
          LET e == NewEvents[i] IN
          /\ e.type = "add" =>
                /\ e.path \in e.known
                /\ \A f \in EligibleIn(e.path) : CheckedBefore(f, i)
          /\ e.type = "rm" =>
                /\ \A d \in e.known : ~HasPrefix(d, e.path)
                /\ \A f \in MapKeySet(srcs) : HasPrefix(f, e.path) => CheckedBefore(f, i)
          /\ e.type \in {"add", "rm"} => (pc = "scan" /\ pc' = "scan")]_vars

\* the observers have received 'add' for SUB after F, inside it, was checked
C17_Witness ==
    /\ pc = "scan"
    /\ \E i, j \in 1..Len(events) :
          /\ i < j
          /\ events[i] = Event("check", F)
          /\ events[j].type = "add" /\ events[j].path = SUB
          /\ SUB \in events[j].known

\* the observers have received 'rm' for the vanished SUB after the files
\* tracked under it were re-checked
C17_WitnessRm ==
    /\ pc = "scan"
    /\ MapHas(last.pre.srcs, F)
    /\ \E i, j \in 1..Len(events) :
          /\ i < j
          /\ events[i] = Event("check", F)
          /\ events[j].type = "rm" /\ events[j].path = SUB
          /\ SUB \notin events[j].known

\* path q lies inside directory d
Inside(q, d) == HasPrefix(q, d \o <<"/">>)

\* C18: the removal procedure for a vanished known directory P removes from
\* the known set only P and the directories inside P: a known directory that
\* is not inside P (such as the sibling R/sub2 when P = R/sub) stays known,
\* and its files stay tracked.
C18_RmOnlyDescendants ==
    [][\A i \in 1..Len(NewEvents) :
          NewEvents[i].type = "rm" =>
             LET P == NewEvents[i].path IN
             \A d \in dirs :
                (d # P /\ ~Inside(d, P)) =>
                   /\ d \in dirs'
                   /\ \A f \in MapKeySet(srcs) :
                         (Inside(f, d) /\ ~Inside(f, P)) => f \in MapKeySet(srcs')]_vars

\* the directories the scan call has dequeued and listed, in order
ListedDirs ==
    LET ls == SelectSeq(events, LAMBDA e : e.type = "list")
    IN [i \in 1..Len(ls) |-> ls[i].path]

\* how many directories lie between "/" and a path
Depth(p) == Cardinality({k \in 1..Len(p) : p[k] = "/"})

\* where a directory stands among the listed ones (0 when it is not listed)
ListedAt(d) ==
    IF \E i \in 1..Len(ListedDirs) : ListedDirs[i] = d
    THEN CHOOSE i \in 1..Len(ListedDirs) : ListedDirs[i] = d
    ELSE 0

\* breadth-first: a directory is never dequeued before a shallower one, and
\* directories of one depth come in the order of their parents
BreadthFirst ==
    \A i, j \in 1..Len(ListedDirs) :
        i < j =>
           /\ Depth(ListedDirs[i]) <= Depth(ListedDirs[j])
           /\ (Depth(ListedDirs[i]) = Depth(ListedDirs[j]) /\ i > 1) =>
                 ListedAt(Parent(ListedDirs[i])) <= ListedAt(Parent(ListedDirs[j]))

\* no directory is listed twice within the call
ListedOnce ==
    \A i, j \in 1..Len(ListedDirs) : ListedDirs[i] = ListedDirs[j] => i = j

\* C19: scan(R) over a finite file tree that does not change during the call
\* terminates (the queue empties and the call returns, or an exception ends
\* it), dequeues directories in breadth-first order, and lists the entries of
\* each directory at most once within the call.
C19_ScanTerminatesBreadthFirst ==
    /\ [](BreadthFirst /\ ListedOnce)
    /\ (pc = "scan") ~> (pc # "scan")

\* a scan of the whole tree has returned: SUB was listed before SUB2, and
\* DEEP, inside SUB, after both
C19_Witness ==
    /\ Scanned(ROOT)
    /\ dirQ = <<>>
    /\ ListedDirs = <<ROOT, SUB, SUB2, DEEP>>
    /\ CheckedPaths = {F, G}

====
